---- MODULE Spec2Model ----
(***************************************************************************)
(* Model of S3-optimize-npm-install/index.js: an Express application with  *)
(* one route, GET '/', that sends a fixed payload, listening on port 3000. *)
(* The main script runs top to bottom (pc), then the event loop serves the *)
(* requests that arrived on the bound socket.  The Express/Node calls the  *)
(* script makes (app.get, app.listen, res.send, the router's dispatch and  *)
(* its default responses) are modelled by what they do.                    *)
(***************************************************************************)
EXTENDS Integers, Sequences, FiniteSets, TLC

\* Bound of the model: the number of requests the clients send in a run.
MaxRequests == 2

\* index.js:7
Port == 3000
\* index.js:4
Payload == "Good Afternoon!"
\* The payload of the previous build of the example (README, stage 2).
StalePayload == "Good Morning!"
\* index.js:8
StartupLine == "Server is listening on http://localhost:3000"

\* What the runtime prints when the 'error' event of the server is unhandled.
UncaughtReport == "Error: listen EADDRINUSE: address already in use :::3000"

\* ---------------------------------------------------------------------
\* Inputs: the requests a client can send.
\* ---------------------------------------------------------------------
Methods == {"GET", "HEAD", "POST", "OPTIONS"}

\* A URL is a sequence of characters: path, then optionally "?" and a query.
Urls == { <<"/">>, <<"/", "?", "q">>, <<"/", "x">> }

\* The entity tag res.send computes for a body (a weak tag over its content).
ETag(body) == <<"W/", body>>

\* Request headers: If-None-Match (<<>> when absent) and Cache-Control.
HeaderSets ==
  { [ifNoneMatch |-> <<>>,          cacheControl |-> ""],
    [ifNoneMatch |-> ETag(Payload), cacheControl |-> ""],
    [ifNoneMatch |-> ETag(StalePayload), cacheControl |-> ""],
    [ifNoneMatch |-> ETag(Payload), cacheControl |-> "no-cache"] }

Requests == [method : Methods, url : Urls, headers : HeaderSets]

\* The requests of the fair specification: without a conditional header, or
\* with the current tag of the payload.
LiveRequests ==
  { r \in Requests : /\ r.headers.cacheControl = ""
                     /\ r.headers.ifNoneMatch \in {<<>>, ETag(Payload)} }

VARIABLES
  pc,            \* position of the main script / process
  routes,        \* the application's router stack
  portInUse,     \* environment: another process holds the port
  listeners,     \* ports this process has bound
  bindAttempts,  \* number of bind calls issued
  pendingError,  \* an 'error' event queued for the next tick
  stdout,        \* lines written to standard output
  stderr,        \* lines the runtime wrote to standard error
  requests,      \* requests received on the socket, in arrival order
  queued,        \* indexes of the requests not yet handed to the application
  handlerCalls,  \* per request: invocations of the route handler
  responses      \* per request: responses sent

vars == <<pc, routes, portInUse, listeners, bindAttempts, pendingError,
          stdout, stderr, requests, queued, handlerCalls, responses>>

listening == listeners # {}

\* ---------------------------------------------------------------------
\* Request processing (pure functions)
\* ---------------------------------------------------------------------

\* parseurl: the pathname is the URL up to the first "?".
RECURSIVE getPathname(_)
getPathname(url) ==
  IF url = <<>> \/ Head(url) = "?" THEN <<>>
  ELSE <<Head(url)>> \o getPathname(Tail(url))

\* The pathname as text, for the not-found page.
RECURSIVE pathText(_)
pathText(pathname) ==
  IF pathname = <<>> THEN "" ELSE Head(pathname) \o pathText(Tail(pathname))

\* A route mounted the way app.use mounts: it matches every path.
matchAnyPath(routePath, pathname) == TRUE

\* Layer.match for a route path (non-strict, anchored at the end).
matchPath(routePath, pathname) == pathname = routePath

\* A route registered with app.all: it handles every method.
handlesAnyMethod(route, method) == TRUE

\* Route._handles_method: a GET route also handles HEAD.
handlesMethod(route, method) ==
  \/ route.method = method
  \/ method = "HEAD" /\ route.method = "GET"

\* Route._options: the methods a route advertises.
routeOptions(route) ==
  IF route.method = "GET" THEN "GET,HEAD" ELSE route.method

\* fresh(): weak comparison of an If-None-Match tag with the entity tag.
etagMatches(match, etag) ==
  \/ match = etag
  \/ match = <<"W/">> \o etag
  \/ <<"W/">> \o match = etag

\* req.fresh as res.send evaluates it (status is 200 at that point).
isFresh(req, etag) ==
  /\ req.method \in {"GET", "HEAD"}
  /\ req.headers.ifNoneMatch # <<>>
  /\ req.headers.cacheControl # "no-cache"
  /\ \/ req.headers.ifNoneMatch = <<"*">>
     \/ etagMatches(req.headers.ifNoneMatch, etag)

\* res.send(body): 304 with no body when fresh, no body for HEAD.
send(req, body) ==
  LET fresh == isFresh(req, ETag(body))
  IN  [status |-> IF fresh THEN 304 ELSE 200,
       body   |-> IF fresh \/ req.method = "HEAD" THEN "" ELSE body]

\* The handler of the first build of the example (README, stage 1).
handlerHello(req) == <<send(req, "Hello World!")>>

\* A handler that returns without calling res.send.
handlerNoSend(req) == <<>>

\* A handler that keeps state between requests: the payload changes once a
\* response has been sent.
handlerCounting(req) ==
  <<send(req, IF \E j \in 1..Len(responses) : responses[j] # <<>>
              THEN StalePayload ELSE Payload)>>

\* The route handler of index.js.
handler(req) == <<send(req, Payload)>>

\* The router's automatic reply to OPTIONS on a path that has routes.
sendOptionsResponse(req, route) == <<send(req, routeOptions(route))>>

\* finalhandler: the default not-found response.
notFound(req) ==
  << [status |-> 404,
      body   |-> IF req.method = "HEAD" THEN ""
                 ELSE "Cannot " \o req.method \o " " \o pathText(getPathname(req.url))] >>

pathRoutes(req) == { r \in routes : matchPath(r.path, getPathname(req.url)) }

handlingRoutes(req) == { r \in pathRoutes(req) : handlesMethod(r, req.method) }

\* TRUE when the router invokes the route handler for req.
reachesHandler(req) == handlingRoutes(req) # {}

\* app(req, res): the responses the application sends for req.
respond(req) ==
  IF reachesHandler(req) THEN handler(req)
  ELSE IF req.method = "OPTIONS" /\ pathRoutes(req) # {}
       THEN sendOptionsResponse(req, CHOOSE r \in pathRoutes(req) : TRUE)
       ELSE notFound(req)

\* ---------------------------------------------------------------------
\* The main script
\* ---------------------------------------------------------------------
Init ==
  /\ pc = "create"
  /\ routes = {}
  /\ portInUse \in BOOLEAN
  /\ listeners = {}
  /\ bindAttempts = 0
  /\ pendingError = FALSE
  /\ stdout = <<>>
  /\ stderr = <<>>
  /\ requests = <<>>
  /\ queued = {}
  /\ handlerCalls = <<>>
  /\ responses = <<>>

\* const app = express();
CreateApp ==
  /\ pc = "create"
  /\ pc' = "route"
  /\ routes' = {}
  /\ UNCHANGED <<portInUse, listeners, bindAttempts, pendingError, stdout,
                 stderr, requests, queued, handlerCalls, responses>>

\* app.get('/', handler);
RegisterRoute ==
  /\ pc = "route"
  /\ pc' = "listen"
  /\ routes' = routes \cup {[method |-> "GET", path |-> <<"/">>]}
  /\ UNCHANGED <<portInUse, listeners, bindAttempts, pendingError, stdout,
                 stderr, requests, queued, handlerCalls, responses>>

\* app.listen(3000): the bind is attempted inside the call; a failure is
\* reported later, as an 'error' event on the next tick.
Listen ==
  /\ pc = "listen"
  /\ pc' = "log"
  /\ bindAttempts' = bindAttempts + 1
  /\ IF portInUse
       THEN /\ pendingError' = TRUE
            /\ UNCHANGED listeners
       ELSE /\ listeners' = listeners \cup {Port}
            /\ UNCHANGED pendingError
  /\ UNCHANGED <<routes, portInUse, stdout, stderr, requests, queued,
                 handlerCalls, responses>>

\* The startup line written from a later callback that never runs.
LogLate ==
  /\ pc = "log"
  /\ pc' = "loop"
  /\ UNCHANGED <<routes, portInUse, listeners, bindAttempts, pendingError,
                 stdout, stderr, requests, queued, handlerCalls, responses>>

\* The startup line written twice.
LogTwice ==
  /\ pc = "log"
  /\ pc' = "loop"
  /\ stdout' = stdout \o <<StartupLine, StartupLine>>
  /\ UNCHANGED <<routes, portInUse, listeners, bindAttempts, pendingError,
                 stderr, requests, queued, handlerCalls, responses>>

\* console.log('Server is listening on http://localhost:3000');
Log ==
  /\ pc = "log"
  /\ pc' = "loop"
  /\ stdout' = Append(stdout, StartupLine)
  /\ UNCHANGED <<routes, portInUse, listeners, bindAttempts, pendingError,
                 stderr, requests, queued, handlerCalls, responses>>

\* An 'error' listener that calls listen again (once).
EmitErrorRetry ==
  /\ pc = "loop"
  /\ pendingError
  /\ pc' = IF bindAttempts < 2 THEN "listen" ELSE "exited"
  /\ pendingError' = FALSE
  /\ stderr' = Append(stderr, UncaughtReport)
  /\ UNCHANGED <<routes, portInUse, listeners, bindAttempts, stdout,
                 requests, queued, handlerCalls, responses>>

\* The queued 'error' event has no listener: the runtime reports the
\* uncaught error and the process exits.
EmitError ==
  /\ pc = "loop"
  /\ pendingError
  /\ pc' = "exited"
  /\ pendingError' = FALSE
  /\ stderr' = Append(stderr, UncaughtReport)
  /\ UNCHANGED <<routes, portInUse, listeners, bindAttempts, stdout,
                 requests, queued, handlerCalls, responses>>

\* ---------------------------------------------------------------------
\* Requests
\* ---------------------------------------------------------------------

\* A client's request reaches the bound socket (possible as soon as the
\* socket is bound, also while the main script is still running).
Arrive(req) ==
  /\ listening
  /\ pc \in {"log", "loop"}
  /\ Len(requests) < MaxRequests
  /\ requests' = Append(requests, req)
  /\ queued' = queued \cup {Len(requests) + 1}
  /\ handlerCalls' = Append(handlerCalls, 0)
  /\ responses' = Append(responses, <<>>)
  /\ UNCHANGED <<pc, routes, portInUse, listeners, bindAttempts,
                 pendingError, stdout, stderr>>

\* A dispatch whose handler closes the server after responding.
DispatchClosing(i) ==
  /\ pc = "loop"
  /\ listening
  /\ i \in queued
  /\ queued' = queued \ {i}
  /\ handlerCalls' = [handlerCalls EXCEPT
                        ![i] = IF reachesHandler(requests[i]) THEN @ + 1 ELSE @]
  /\ responses' = [responses EXCEPT ![i] = @ \o respond(requests[i])]
  /\ listeners' = IF reachesHandler(requests[i]) THEN {} ELSE listeners
  /\ UNCHANGED <<pc, routes, portInUse, bindAttempts,
                 pendingError, stdout, stderr, requests>>

\* The event loop hands request i to the application, which routes it and
\* responds in the same invocation.
Dispatch(i) ==
  /\ pc = "loop"
  /\ listening
  /\ i \in queued
  /\ queued' = queued \ {i}
  /\ handlerCalls' = [handlerCalls EXCEPT
                        ![i] = IF reachesHandler(requests[i]) THEN @ + 1 ELSE @]
  /\ responses' = [responses EXCEPT ![i] = @ \o respond(requests[i])]
  /\ UNCHANGED <<pc, routes, portInUse, listeners, bindAttempts,
                 pendingError, stdout, stderr, requests>>

Next ==
  \/ CreateApp
  \/ RegisterRoute
  \/ Listen
  \/ Log
  \/ EmitError
  \/ \E req \in Requests : Arrive(req)
  \/ \E i \in 1..MaxRequests : Dispatch(i)

Spec == Init /\ [][Next]_vars

NextLive ==
  \/ CreateApp
  \/ RegisterRoute
  \/ Listen
  \/ Log
  \/ EmitError
  \/ \E req \in LiveRequests : Arrive(req)
  \/ \E i \in 1..MaxRequests : Dispatch(i)

\* The event loop runs every ready callback and the script runs to its end.
FairSpec ==
  /\ Init /\ [][NextLive]_vars
  /\ WF_vars(CreateApp) /\ WF_vars(RegisterRoute) /\ WF_vars(Listen)
  /\ WF_vars(Log) /\ WF_vars(EmitError)
  /\ \A i \in 1..MaxRequests : WF_vars(Dispatch(i))

TypeOK ==
  /\ pc \in {"create", "route", "listen", "log", "loop", "exited"}
  /\ portInUse \in BOOLEAN
  /\ listeners \subseteq {Port}
  /\ bindAttempts \in 0..1
  /\ Len(requests) <= MaxRequests
  /\ Len(responses) = Len(requests)
  /\ Len(handlerCalls) = Len(requests)
  /\ queued \subseteq 1..Len(requests)

\* ---------------------------------------------------------------------
\* Properties
\* ---------------------------------------------------------------------
Answered(i) == i \in 1..Len(requests) /\ responses[i] # <<>>

PathOf(i) == getPathname(requests[i].url)

Root == <<"/">>

Ok(body) == <<[status |-> 200, body |-> body]>>

NotModified == <<[status |-> 304, body |-> ""]>>

\* A conditional request whose cached copy is current: If-None-Match is "*"
\* or the tag of the payload, and Cache-Control is not no-cache.
Conditional(req) ==
  /\ req.headers.ifNoneMatch \in {<<"*">>, ETag(Payload)}
  /\ req.headers.cacheControl # "no-cache"

C2_OtherPathNotFound ==
  \A i \in 1..Len(requests) :
    PathOf(i) # Root =>
      /\ handlerCalls[i] = 0
      /\ Answered(i) =>
           /\ Len(responses[i]) = 1
           /\ responses[i][1].status = 404
           /\ responses[i][1].body # Payload

C2_Witness ==
  \E i \in 1..Len(requests) :
    /\ Answered(i)
    /\ requests[i].method = "GET"
    /\ requests[i].url = <<"/", "x">>
    /\ responses[i][1].status = 404

\* C3: the startup line is written only after the listener is bound: when
\* the line is on standard output, the listener is in the bound state.
C3_LogOnlyWhenBound == stdout # <<>> => listening

\* C4: the process binds at most one listening socket, on port 3000, and
\* writes the startup line once: never more than one bound listener, never
\* more than one startup line, and exactly one once the script has run.
C4_OneListenerOneLine ==
  /\ Cardinality(listeners) <= 1
  /\ listeners \subseteq {3000}
  /\ bindAttempts <= 1
  /\ Len(stdout) <= 1
  /\ pc \in {"loop", "exited"} => stdout = <<StartupLine>>

C4_Witness ==
  /\ listeners = {3000}
  /\ stdout = <<StartupLine>>
  /\ Len(requests) = MaxRequests
  /\ \A i \in 1..Len(requests) : Answered(i)

C6_ListeningIsStable ==
  [][ /\ listening => listening'
      /\ (~listening /\ listening') => (pc = "listen" /\ bindAttempts = 0)
    ]_vars

C6_Witness ==
  /\ listening
  /\ Len(requests) = MaxRequests
  /\ \A i \in 1..Len(requests) : Answered(i) /\ handlerCalls[i] = 1

\* C7: a request handed to the application has exactly one response as soon
\* as the invocation returns (the handler runs at most once for it), and
\* every accepted request eventually has exactly one response.
C7_ExactlyOneResponse ==
  /\ [](\A i \in 1..Len(requests) :
          /\ Len(responses[i]) <= 1
          /\ handlerCalls[i] <= 1
          /\ i \notin queued => Len(responses[i]) = 1)
  /\ \A i \in 1..MaxRequests :
       (Len(requests) >= i) ~> (Len(requests) >= i /\ Len(responses[i]) = 1)

C7_Witness ==
  \E i \in 1..Len(requests) :
    /\ handlerCalls[i] = 1
    /\ i \notin queued
    /\ Len(responses[i]) = 1
    /\ queued # {}

C9_LogBeforeFirstResponse ==
  (\E i \in 1..Len(requests) : responses[i] # <<>> \/ handlerCalls[i] > 0)
    => stdout = <<StartupLine>>

C9_Witness ==
  /\ stdout = <<StartupLine>>
  /\ \E i \in 1..Len(requests) : Answered(i) /\ handlerCalls[i] = 1

\* C10 (as stated): a request to "/" with a method other than GET or HEAD is
\* not dispatched to the handler and gets the not-found response.
C10_OtherMethodNotFound ==
  \A i \in 1..Len(requests) :
    (PathOf(i) = Root /\ requests[i].method \notin {"GET", "HEAD"}) =>
      /\ handlerCalls[i] = 0
      /\ Answered(i) =>
           /\ responses[i][1].status = 404
           /\ responses[i][1].body # Payload

\* C10 (amended): a request to "/" with a method other than GET or HEAD is
\* not dispatched to the handler and never gets the fixed payload; it gets
\* the not-found response, except OPTIONS, which the router answers itself
\* with status 200 and the list of allowed methods, GET,HEAD.
C10_OtherMethodNotHandled ==
  \A i \in 1..Len(requests) :
    (PathOf(i) = Root /\ requests[i].method \notin {"GET", "HEAD"}) =>
      /\ handlerCalls[i] = 0
      /\ Answered(i) =>
           /\ Len(responses[i]) = 1
           /\ responses[i][1].body # Payload
           /\ responses[i][1].status =
                IF requests[i].method = "OPTIONS" THEN 200 ELSE 404
           /\ requests[i].method = "OPTIONS" =>
                responses[i][1].body = "GET,HEAD"

C10_Witness ==
  \E i, j \in 1..Len(requests) :
    /\ Answered(i) /\ Answered(j)
    /\ requests[i].method = "POST" /\ PathOf(i) = Root
    /\ responses[i][1].status = 404
    /\ requests[j].method = "OPTIONS" /\ PathOf(j) = Root
    /\ responses[j][1].status = 200
====
